---- MODULE Spec2Model ----
(***************************************************************************)
(* Model of the tool handlers of the npm MCP server (src/index.ts).        *)
(*                                                                         *)
(* A tool call maps an async callback over args.packages and awaits        *)
(* Promise.all of the resulting promises.  The model has one item task per *)
(* input package; an item task is blocked on a set of upstream requests.   *)
(* One step of the model is one upstream request settling, followed by     *)
(* every continuation that runs before the next request settles (the       *)
(* microtasks: the item's callback up to its next await, the resolution of *)
(* Promise.all, the handler's return or catch).  A response's status line  *)
(* and its body are delivered in the same step.                            *)
(*                                                                         *)
(* Report text is kept as a sequence of sections instead of characters:    *)
(* a section records what the text says (header, success, failure, error,  *)
(* the package it names, the reason, the listed dependencies).             *)
(***************************************************************************)
EXTENDS Integers, Sequences, FiniteSets, TLC

\* Bounds of the model.
MaxPkgs == 2
MaxNestedPkgs == 1
MaxDeps == 2
MaxAlts == 1
MaxTools == 3
MaxRequests == 2

Calls == {1, 2, 3}
Pkgs == {"a", "b"}
Periods == {"last-week", "last-month", "last-year"}
PeriodArgs == Periods \cup {"undefined", "", "yesterday"}

PackageTools ==
    {"npmVersions", "npmLatest", "npmDeps", "npmTypes", "npmSize",
     "npmVulnerabilities", "npmTrends", "npmCompare", "npmMaintainers",
     "npmScore", "npmPackageReadme", "npmLicenseCompatibility", "npmRepoStats",
     "npmDeprecated", "npmChangelogAnalysis", "npmAlternatives", "npmQuality",
     "npmMaintenance"}

\* The handlers whose callback fans out again or probes in a loop.
NestedTools == {"npmDeprecated", "npmChangelogAnalysis", "npmAlternatives"}

\* The package lists a tool is called with: the shorter ones for the
\* handlers whose callback has several requests in flight at once.
PkgLists(t) ==
    UNION {[1..n -> Pkgs] :
              n \in 0..(IF t \in NestedTools \cup {"npmCompare"}
                        THEN MaxNestedPkgs ELSE MaxPkgs)}

\* Names of the dependencies and of the search results an upstream body lists.
DepNames == <<"d1", "d2", "d3", "d4">>
AltNames == <<"x1", "x2", "x3">>
dependencies == SubSeq(DepNames, 1, MaxDeps)
objects == SubSeq(AltNames, 1, MaxAlts)

\* '@types/' + pkg.replace('@', '').replace('/', '__')
typesPackage(pkg) == IF pkg = "a" THEN "@types/a" ELSE "@types/b"

\* The GitHub repository the registry document of a package points to
\* (repository.url matched against github.com[:/]owner/repo).
RepoOf(pkg) == IF pkg = "a" THEN "o/a" ELSE "o/b"

changelogFiles ==
    <<"CHANGELOG.md", "changelog.md", "CHANGES.md", "changes.md", "HISTORY.md",
      "history.md", "NEWS.md", "news.md", "RELEASES.md", "releases.md">>

-----------------------------------------------------------------------------
VARIABLES
    pc,         \* per call: idle, awaiting (Promise.all pending), returned,
                \* or rejected (the promise of the handler rejected)
    tool,       \* per call: the tool called
    args,       \* per call: the arguments, packages and period
    items,      \* per call: the item tasks, one per package, in input order
    response,   \* per call: the CallToolResult, once returned
    issued,     \* per call: the requests issued, each with the item that
                \* issued it and whether a response had been received before
    upstream,   \* per subject: the class of response every request about
                \* it gets, or "any" when the registries may answer anything
    npmsData,   \* the value isValidNpmsResponse is applied to
    npmsResult, \* what it returned
    fetchLog,   \* per call: the items a request of which has failed, the
                \* requests issued by an item after one of its requests had
                \* failed, and the requests for a URL the item had already
                \* requested
    registered, \* the names of the tools registered on the server, in order
    connected,  \* the server is connected to its transport
    request,    \* per call: the tools/call request the server received
    completions, \* per call: the completions of its upstream requests in
                \* the order they happened, when they are recorded
    utility,    \* the McpUtilityServer: its registry, the handler installed
                \* for the method 'tool', the requests it has answered
    packageInfo \* the value isNpmPackageInfo is applied to, and its result

vars ==
    <<pc, tool, args, items, response, issued, upstream, npmsData, npmsResult,
      fetchLog, registered, connected, request, completions, utility,
      packageInfo>>

\* The state of the server the tools are registered on.
serverVars == <<registered, connected, request>>

-----------------------------------------------------------------------------
(* Upstream requests and the classes of upstream responses.                *)

NoUrl == <<"", "", "">>
RegistryUrl(pkg) == <<"registry", pkg, "">>
LatestUrl(pkg) == <<"registry", pkg, "latest">>
DownloadsUrl(period, pkg) == <<"downloads", pkg, period>>
BundlephobiaUrl(pkg) == <<"bundlephobia", pkg, "">>
OsvUrl(pkg) == <<"osv", pkg, "">>
NpmsUrl(pkg) == <<"npms", pkg, "">>
GithubUrl(repo) == <<"github", repo, "">>
ReleasesUrl(repo) == <<"github", repo, "releases">>
RawUrl(repo, file) == <<"raw", repo, file>>
SearchUrl(pkg) == <<"search", pkg, "keywords">>
SearchTextUrl(query, size) == <<"search", query, ToString(size)>>

\*  ok            2xx, body of the documented shape
\*  okDeprecated  2xx, registry document whose latest version is deprecated
\*  okNone        2xx, search result with an empty objects array
\*  okNegative    2xx, search result whose objects have a negative score.final
\*  okHigh        2xx, search result whose objects have a score.final above 100
\*  detailnull    2xx, npms.io body whose score.detail is null
\*  null          2xx, body is the JSON value null
\*  empty         2xx, body is the JSON value {}
\*  badjson       2xx, body is not JSON: response.json() rejects
\*  notfound      404
\*  servererr     500
\*  reject        the fetch promise rejects (network error)
\*  badbody       2xx, and response.text() rejects while the body is read
BodyOutcomes == {"ok", "null", "empty"}
FailOutcomes == {"badjson", "notfound", "servererr", "reject"}

OutcomesOf(url) ==
    CASE url[1] = "npms" -> BodyOutcomes \cup FailOutcomes \cup {"detailnull"}
      [] url[1] = "search" /\ url[3] = "keywords" ->
             BodyOutcomes \cup FailOutcomes \cup {"okNone"}
      [] url[1] = "search" /\ url[3] # "keywords" ->
             BodyOutcomes \cup FailOutcomes \cup {"okNone", "okNegative", "okHigh"}
      [] url[1] = "registry" /\ url[3] = "" ->
             BodyOutcomes \cup FailOutcomes \cup {"okDeprecated"}
      [] url[1] = "raw" -> {"ok", "notfound", "reject", "badbody"}
      [] OTHER -> BodyOutcomes \cup FailOutcomes

Outcomes ==
    BodyOutcomes \cup FailOutcomes
        \cup {"detailnull", "okNone", "okDeprecated", "okNegative", "okHigh",
              "badbody"}

\* response.ok
ResponseOk(o) == o \notin {"notfound", "servererr", "reject"}

\* The npms.io body: the JavaScript kind of the value at each position
\* isValidNpmsResponse inspects.  A position below a value that is not a
\* plain object reads as undefined.
NpmsPositions ==
    {"data", "score", "final", "detail", "quality", "popularity", "maintenance",
     "collected", "metadata", "mname", "mversion", "npm", "downloads",
     "starsCount", "github", "gstars", "gforks", "gsubs", "issues", "icount",
     "iopen"}
Kinds == {"undef", "null", "num", "zero", "str", "obj", "arr"}

ValidNpms ==
    [p \in NpmsPositions |->
        CASE p \in {"data", "score", "detail", "collected", "metadata", "npm",
                    "github", "issues"} -> "obj"
          [] p \in {"mname", "mversion"} -> "str"
          [] p = "downloads" -> "arr"
          [] OTHER -> "num"]

NpmsBody(o) ==
    CASE o = "null" -> [ValidNpms EXCEPT !["data"] = "null"]
      [] o = "empty" -> [p \in NpmsPositions |-> IF p = "data" THEN "obj" ELSE "undef"]
      [] o = "detailnull" -> [ValidNpms EXCEPT !["detail"] = "null"]
      [] OTHER -> ValidNpms

\* The fields of an upstream JSON body the handlers and type guards read.
EmptyBody ==
    [json |-> "object", name |-> "undef", version |-> "undef",
     maintainers |-> "undef", distTags |-> "undef", latest |-> "undef",
     versions |-> "undef",
     repository |-> "undef", deprecated |-> "undef", dependencies |-> <<>>,
     sizes |-> "undef", downloads |-> "undef", objects |-> "undef",
     total |-> "undef", scoreFinal |-> 0, stats |-> "undef"]

FullBody ==
    [json |-> "object", name |-> "str", version |-> "str",
     maintainers |-> "valid", distTags |-> "record", latest |-> "str",
     versions |-> "hasLatest",
     repository |-> "github", deprecated |-> "undef",
     dependencies |-> dependencies, sizes |-> "num", downloads |-> "num",
     objects |-> "array", total |-> "num", scoreFinal |-> 50, stats |-> "num"]

Body(o) ==
    CASE o = "null" -> [EmptyBody EXCEPT !.json = "null"]
      [] o = "empty" -> EmptyBody
      [] o = "okDeprecated" -> [FullBody EXCEPT !.deprecated = "str"]
      [] o = "okNone" -> [FullBody EXCEPT !.objects = "emptyArray"]
      [] o = "okNegative" -> [FullBody EXCEPT !.scoreFinal = -50]
      [] o = "okHigh" -> [FullBody EXCEPT !.scoreFinal = 250]
      [] OTHER -> FullBody

-----------------------------------------------------------------------------
(* Type guards.                                                            *)

\* NpmPackageInfoSchema.safeParse(data).success: name a string, dist-tags a
\* record of strings, versions a record of version objects, maintainers
\* absent or an array of objects with a string name (email is optional).
NpmPackageInfoSchema(data) ==
    /\ data.json = "object"
    /\ data.name = "str"
    /\ data.distTags = "record"
    /\ data.versions \in {"record", "hasLatest"}
    /\ data.maintainers \in {"undef", "emptyArray", "valid", "noEmail"}

\* typeof data === 'object' (an array is one), not null, and maintainers
\* absent or an array whose entries all have a string name and a string
\* email.
isNpmPackageInfo(data) ==
    /\ data.json \in {"object", "array"}
    /\ \/ data.maintainers = "undef"
       \/ data.maintainers = "emptyArray"
       \/ data.maintainers = "valid"

isNpmPackageData(data) ==
    /\ data.json = "object"
    /\ data.name = "str"
    /\ data.version = "str"

isBundlephobiaData(data) ==
    /\ data.json = "object"
    /\ data.sizes = "num"

\* NpmSearchResultSchema.safeParse(rawData).success
NpmSearchResultSchema(data) ==
    /\ data.json = "object"
    /\ data.objects \in {"array", "emptyArray"}
    /\ data.total = "num"

isNpmDownloadsData(data) ==
    /\ data.json = "object"
    /\ data.downloads = "num"
    /\ data.name = "str"

\* Reads of the npms.io body.  Parent(p) is the position p is a field of.
Parent(p) ==
    CASE p \in {"score", "collected"} -> "data"
      [] p \in {"final", "detail"} -> "score"
      [] p \in {"quality", "popularity", "maintenance"} -> "detail"
      [] p \in {"metadata", "npm", "github"} -> "collected"
      [] p \in {"mname", "mversion"} -> "metadata"
      [] p \in {"downloads", "starsCount"} -> "npm"
      [] p \in {"gstars", "gforks", "gsubs", "issues"} -> "github"
      [] p \in {"icount", "iopen"} -> "issues"
      [] OTHER -> "data"

RECURSIVE Value(_, _)
\* The kind of the value found at position p of body b: a field of a plain
\* object is what the body holds there, a field of anything else is undefined.
Value(b, p) ==
    IF p = "data" THEN b[p]
    ELSE IF Value(b, Parent(p)) = "obj" THEN b[p] ELSE "undef"

\* parent.p throws a TypeError when parent is null or undefined.
ReadThrows(b, p) == Value(b, Parent(p)) \in {"null", "undef"}

Truthy(k) == k \in {"num", "str", "obj", "arr"}
TypeofObject(k) == k \in {"obj", "arr", "null"}
TypeofNumber(k) == k \in {"num", "zero"}
TypeofString(k) == k = "str"
\* 'p' in parent, evaluated on a parent that is an object or an array
HasKey(b, p) == Value(b, Parent(p)) = "obj" /\ b[p] # "undef"

Returns(v) == [threw |-> FALSE, value |-> v]
TypeError == [threw |-> TRUE, value |-> FALSE]

isValidNpmsResponse(b) ==
    IF ~TypeofObject(Value(b, "data")) \/ Value(b, "data") = "null"
    THEN Returns(FALSE)
    ELSE IF \/ ~Truthy(Value(b, "score"))
            \/ ~TypeofObject(Value(b, "score"))
            \/ ~HasKey(b, "final")
            \/ ~TypeofNumber(Value(b, "final"))
            \/ ~HasKey(b, "detail")
            \/ ~TypeofObject(Value(b, "detail"))
    THEN Returns(FALSE)
    ELSE IF ReadThrows(b, "quality")
    THEN TypeError
    ELSE IF \/ ~TypeofNumber(Value(b, "quality"))
            \/ ~TypeofNumber(Value(b, "popularity"))
            \/ ~TypeofNumber(Value(b, "maintenance"))
    THEN Returns(FALSE)
    ELSE IF \/ ~Truthy(Value(b, "collected"))
            \/ ~TypeofObject(Value(b, "collected"))
            \/ ~Truthy(Value(b, "metadata"))
            \/ ~TypeofObject(Value(b, "metadata"))
            \/ ~TypeofString(Value(b, "mname"))
            \/ ~TypeofString(Value(b, "mversion"))
    THEN Returns(FALSE)
    ELSE IF \/ ~Truthy(Value(b, "npm"))
            \/ ~TypeofObject(Value(b, "npm"))
            \/ Value(b, "downloads") # "arr"
            \/ ~TypeofNumber(Value(b, "starsCount"))
    THEN Returns(FALSE)
    ELSE IF /\ Truthy(Value(b, "github"))
            /\ \/ ~TypeofObject(Value(b, "github"))
               \/ ~TypeofNumber(Value(b, "gstars"))
               \/ ~TypeofNumber(Value(b, "gforks"))
               \/ ~TypeofNumber(Value(b, "gsubs"))
               \/ ~Truthy(Value(b, "issues"))
               \/ ~TypeofObject(Value(b, "issues"))
               \/ ~TypeofNumber(Value(b, "icount"))
               \/ ~TypeofNumber(Value(b, "iopen"))
    THEN Returns(FALSE)
    ELSE Returns(TRUE)

-----------------------------------------------------------------------------
(* Sections of a report and the states of an item task.                    *)

NoSection == [kind |-> "none", name |-> "", reason |-> "", detail |-> <<>>]
Success(pkg, note, detail) ==
    [kind |-> "ok", name |-> pkg, reason |-> note, detail |-> detail]
Failure(pkg, reason) ==
    [kind |-> "fail", name |-> pkg, reason |-> reason, detail |-> <<>>]
Header(title) == [kind |-> "header", name |-> "", reason |-> title, detail |-> <<>>]
Footer(title) == [kind |-> "footer", name |-> "", reason |-> title, detail |-> <<>>]
ErrorText(msg) == [kind |-> "error", name |-> "", reason |-> msg, detail |-> <<>>]

\* An item task: the promise of one call of the callback mapped over packages.
\*  pc     pending, fulfilled or rejected
\*  stage  the await the callback is blocked at (0: not yet called)
\*  pend   the requests of this item in flight
\*  seen   the responses received and still needed
\*  acc    what the callback has collected so far
\*  res    the value the promise fulfilled with, or the error it rejected with
\*  at     the position of this promise in the order of fulfilment
NewItem ==
    [pc |-> "pending", stage |-> 0, pend |-> {}, seen |-> {}, acc |-> <<>>,
     res |-> NoSection, at |-> 0]

Await(it, stage, urls) ==
    [it EXCEPT !.stage = stage, !.pend = @ \cup urls]
Return(it, section) ==
    [it EXCEPT !.pc = "fulfilled", !.res = section, !.seen = {}, !.acc = <<>>]
Throw(it, pkg, msg) ==
    [it EXCEPT !.pc = "rejected", !.seen = {}, !.acc = <<>>,
               !.res = [kind |-> "thrown", name |-> pkg, reason |-> msg,
                        detail |-> <<>>]]

-----------------------------------------------------------------------------
(* The callbacks the handlers map over args.packages.  Each takes the      *)
(* package, the item task with the settled request removed from pend, the  *)
(* request that settled and the class of its response; with stage = 0 it   *)
(* is the call of the callback, which runs up to its first await.          *)

\* The callback of handleNpmVersions without its try block: a failure
\* rejects the promise of the item.
handleNpmVersionsNoTry(pkg, it, url, o) ==
    IF it.stage = 0 THEN Await(it, 1, {RegistryUrl(pkg)})
    ELSE IF o = "reject" THEN Throw(it, pkg, "fetch rejected")
    ELSE IF ~ResponseOk(o) THEN Throw(it, pkg, "Failed to fetch package info")
    ELSE IF o = "badjson" THEN Throw(it, pkg, "invalid json")
    ELSE IF ~isNpmPackageInfo(Body(o))
    THEN Throw(it, pkg, "Invalid package info format")
    ELSE IF Body(o).versions = "undef" THEN Throw(it, pkg, "TypeError")
    ELSE Return(it, Success(pkg, "", <<>>))

handleNpmVersions(pkg, it, url, o) ==
    IF it.stage = 0 THEN Await(it, 1, {RegistryUrl(pkg)})
    ELSE IF o = "reject" THEN Return(it, Failure(pkg, "fetch rejected"))
    ELSE IF ~ResponseOk(o) THEN Return(it, Failure(pkg, "Failed to fetch package info"))
    ELSE IF o = "badjson" THEN Return(it, Failure(pkg, "invalid json"))
    ELSE IF ~isNpmPackageInfo(Body(o))
    THEN Return(it, Failure(pkg, "Invalid package info format"))
    ELSE IF Body(o).versions = "undef" THEN Return(it, Failure(pkg, "TypeError"))
    ELSE Return(it, Success(pkg, "", <<>>))

\* handleNpmLatest requesting the same URL again after a failed request.
handleNpmLatestRetry(pkg, it, url, o) ==
    IF it.stage = 0 THEN Await(it, 1, {LatestUrl(pkg)})
    ELSE IF it.stage = 1 /\ (o = "reject" \/ ~ResponseOk(o))
    THEN Await(it, 2, {LatestUrl(pkg)})
    ELSE IF o = "reject" THEN Return(it, Failure(pkg, "fetch rejected"))
    ELSE IF ~ResponseOk(o) THEN Return(it, Failure(pkg, "Failed to fetch latest version"))
    ELSE IF o = "badjson" THEN Return(it, Failure(pkg, "invalid json"))
    ELSE IF Body(o).json = "null" THEN Return(it, Failure(pkg, "TypeError"))
    ELSE Return(it, Success(pkg, Body(o).version, <<>>))

handleNpmLatest(pkg, it, url, o) ==
    IF it.stage = 0 THEN Await(it, 1, {LatestUrl(pkg)})
    ELSE IF o = "reject" THEN Return(it, Failure(pkg, "fetch rejected"))
    ELSE IF ~ResponseOk(o) THEN Return(it, Failure(pkg, "Failed to fetch latest version"))
    ELSE IF o = "badjson" THEN Return(it, Failure(pkg, "invalid json"))
    ELSE IF Body(o).json = "null" THEN Return(it, Failure(pkg, "TypeError"))
    ELSE Return(it, Success(pkg, Body(o).version, <<>>))

\* handleNpmDeps with a second attempt after a failed status.
handleNpmDepsRetry(pkg, it, url, o) ==
    IF it.stage = 0 THEN Await(it, 1, {LatestUrl(pkg)})
    ELSE IF it.stage = 1 /\ o \in {"notfound", "servererr"}
    THEN Await(it, 2, {LatestUrl(pkg)})
    ELSE IF o = "reject" THEN Return(it, Failure(pkg, "fetch rejected"))
    ELSE IF ~ResponseOk(o) THEN Return(it, Failure(pkg, "Failed to fetch package info"))
    ELSE IF o = "badjson" THEN Return(it, Failure(pkg, "invalid json"))
    ELSE IF ~isNpmPackageData(Body(o))
    THEN Return(it, Failure(pkg, "Invalid package data received"))
    ELSE Return(it, Success(pkg, "", Body(o).dependencies))

handleNpmDeps(pkg, it, url, o) ==
    IF it.stage = 0 THEN Await(it, 1, {LatestUrl(pkg)})
    ELSE IF o = "reject" THEN Return(it, Failure(pkg, "fetch rejected"))
    ELSE IF ~ResponseOk(o) THEN Return(it, Failure(pkg, "Failed to fetch package info"))
    ELSE IF o = "badjson" THEN Return(it, Failure(pkg, "invalid json"))
    ELSE IF ~isNpmPackageData(Body(o))
    THEN Return(it, Failure(pkg, "Invalid package data received"))
    ELSE Return(it, Success(pkg, "", Body(o).dependencies))

handleNpmTypes(pkg, it, url, o) ==
    IF it.stage = 0 THEN Await(it, 1, {LatestUrl(pkg)})
    ELSE IF it.stage = 1
    THEN IF o = "reject" THEN Throw(it, pkg, "fetch rejected")
         ELSE IF ~ResponseOk(o) THEN Throw(it, pkg, "Failed to fetch package info")
         ELSE IF o = "badjson" THEN Throw(it, pkg, "invalid json")
         ELSE IF Body(o).json = "null" THEN Throw(it, pkg, "TypeError")
         ELSE Await([it EXCEPT !.acc = <<Body(o).version>>], 2,
                    {LatestUrl(typesPackage(pkg))})
    ELSE IF o = "reject" \/ ~ResponseOk(o)
    THEN Return(it, Success(pkg, it.acc[1], <<>>))
    ELSE IF o = "badjson" THEN Throw(it, pkg, "invalid json")
    ELSE IF Body(o).json = "null" THEN Throw(it, pkg, "TypeError")
    ELSE Return(it, Success(pkg, it.acc[1], <<typesPackage(pkg)>>))

handleNpmSize(pkg, it, url, o) ==
    IF it.stage = 0 THEN Await(it, 1, {BundlephobiaUrl(pkg)})
    ELSE IF o = "reject" THEN Throw(it, pkg, "fetch rejected")
    ELSE IF ~ResponseOk(o) THEN Return(it, Failure(pkg, "Failed to fetch package size"))
    ELSE IF o = "badjson" THEN Throw(it, pkg, "invalid json")
    ELSE IF ~isBundlephobiaData(Body(o))
    THEN Return(it, Failure(pkg, "Invalid response from bundlephobia"))
    ELSE Return(it, Success(pkg, "", <<>>))

handleNpmVulnerabilities(pkg, it, url, o) ==
    IF it.stage = 0 THEN Await(it, 1, {OsvUrl(pkg)})
    ELSE IF o = "reject" THEN Throw(it, pkg, "fetch rejected")
    ELSE IF ~ResponseOk(o)
    THEN Return(it, Failure(pkg, "Failed to fetch vulnerability info"))
    ELSE IF o = "badjson" THEN Throw(it, pkg, "invalid json")
    ELSE IF Body(o).json = "null" THEN Throw(it, pkg, "TypeError")
    ELSE Return(it, Success(pkg, "", <<>>))

\* The period of the arguments, used as it is given.
TrendsPeriodAsGiven(period) == IF period = "undefined" THEN "last-month" ELSE period

\* args.period && [...].includes(args.period) ? args.period : 'last-month'
TrendsPeriod(period) == IF period \in Periods THEN period ELSE "last-month"

handleNpmTrends(period, pkg, it, url, o) ==
    IF it.stage = 0 THEN Await(it, 1, {DownloadsUrl(TrendsPeriod(period), pkg)})
    ELSE IF o = "reject" THEN Throw(it, pkg, "fetch rejected")
    ELSE IF ~ResponseOk(o)
    THEN Return(it, Failure(pkg, "Failed to fetch download trends"))
    ELSE IF o = "badjson" THEN Throw(it, pkg, "invalid json")
    ELSE IF ~isNpmDownloadsData(Body(o))
    THEN Return(it, Failure(pkg, "Invalid response format from npm downloads API"))
    ELSE Return(it, Success(pkg, "", <<>>))

\* The callback awaits Promise.all of two fetches: it rejects as soon as one
\* of them rejects, and goes on when both have resolved.
handleNpmCompare(pkg, it, url, o) ==
    IF it.stage = 0
    THEN Await(it, 1, {LatestUrl(pkg), DownloadsUrl("last-month", pkg)})
    ELSE IF o = "reject" THEN Throw(it, pkg, "fetch rejected")
    ELSE IF it.pend # {} THEN [it EXCEPT !.seen = @ \cup {<<url, o>>}]
    ELSE LET both == it.seen \cup {<<url, o>>}
             info == CHOOSE r \in both : r[1] = LatestUrl(pkg)
             downloads == CHOOSE r \in both : r[1] = DownloadsUrl("last-month", pkg)
         IN  IF ~ResponseOk(info[2]) \/ ~ResponseOk(downloads[2])
             THEN Throw(it, pkg, "Failed to fetch data")
             ELSE IF info[2] = "badjson" \/ downloads[2] = "badjson"
             THEN Throw(it, pkg, "invalid json")
             ELSE IF \/ ~isNpmPackageData(Body(info[2]))
                     \/ ~isNpmDownloadsData(Body(downloads[2]))
             THEN Throw(it, pkg, "Invalid response format")
             ELSE Return(it, Success(pkg, "", <<>>))

handleNpmQuality(pkg, it, url, o) ==
    IF it.stage = 0 THEN Await(it, 1, {NpmsUrl(pkg)})
    ELSE IF o = "reject" THEN Throw(it, pkg, "fetch rejected")
    ELSE IF ~ResponseOk(o) THEN Return(it, Failure(pkg, "Failed to fetch quality data"))
    ELSE IF o = "badjson" THEN Throw(it, pkg, "invalid json")
    ELSE IF isValidNpmsResponse(NpmsBody(o)).threw THEN Throw(it, pkg, "TypeError")
    ELSE IF ~isValidNpmsResponse(NpmsBody(o)).value
    THEN Return(it, Failure(pkg, "Invalid response format from npms.io API"))
    ELSE Return(it, Success(pkg, "", <<>>))

handleNpmMaintenance(pkg, it, url, o) ==
    IF it.stage = 0 THEN Await(it, 1, {NpmsUrl(pkg)})
    ELSE IF o = "reject" THEN Throw(it, pkg, "fetch rejected")
    ELSE IF ~ResponseOk(o)
    THEN Return(it, Failure(pkg, "Failed to fetch maintenance data"))
    ELSE IF o = "badjson" THEN Throw(it, pkg, "invalid json")
    ELSE IF isValidNpmsResponse(NpmsBody(o)).threw THEN Throw(it, pkg, "TypeError")
    ELSE IF ~isValidNpmsResponse(NpmsBody(o)).value
    THEN Return(it, Failure(pkg, "Invalid response format from npms.io API"))
    ELSE Return(it, Success(pkg, "", <<>>))

\* handleNpmMaintainers without the test of response.status === 404.
handleNpmMaintainersNo404(pkg, it, url, o) ==
    IF it.stage = 0 THEN Await(it, 1, {RegistryUrl(pkg)})
    ELSE IF o = "reject" THEN Throw(it, pkg, "fetch rejected")
    ELSE IF ~ResponseOk(o) THEN Throw(it, pkg, "API request failed")
    ELSE IF o = "badjson" THEN Throw(it, pkg, "invalid json")
    ELSE IF ~isNpmPackageInfo(Body(o))
    THEN Throw(it, pkg, "Invalid package info data received")
    ELSE Return(it, Success(pkg, Body(o).maintainers, <<>>))

handleNpmMaintainers(pkg, it, url, o) ==
    IF it.stage = 0 THEN Await(it, 1, {RegistryUrl(pkg)})
    ELSE IF o = "reject" THEN Throw(it, pkg, "fetch rejected")
    ELSE IF o = "notfound"
    THEN Return(it, Failure(pkg, "Package not found in the npm registry"))
    ELSE IF ~ResponseOk(o) THEN Throw(it, pkg, "API request failed")
    ELSE IF o = "badjson" THEN Throw(it, pkg, "invalid json")
    ELSE IF ~isNpmPackageInfo(Body(o))
    THEN Throw(it, pkg, "Invalid package info data received")
    ELSE Return(it, Success(pkg, Body(o).maintainers, <<>>))

handleNpmScore(pkg, it, url, o) ==
    IF it.stage = 0 THEN Await(it, 1, {NpmsUrl(pkg)})
    ELSE IF o = "reject" THEN Throw(it, pkg, "fetch rejected")
    ELSE IF o = "notfound"
    THEN Return(it, Failure(pkg, "Package not found in the npm registry"))
    ELSE IF ~ResponseOk(o) THEN Throw(it, pkg, "API request failed")
    ELSE IF o = "badjson" THEN Throw(it, pkg, "invalid json")
    ELSE IF isValidNpmsResponse(NpmsBody(o)).threw THEN Throw(it, pkg, "TypeError")
    ELSE IF ~isValidNpmsResponse(NpmsBody(o)).value
    THEN Return(it, Failure(pkg, "Invalid or incomplete response from npms.io API"))
    ELSE Return(it, Success(pkg, "", <<>>))

handleNpmPackageReadme(pkg, it, url, o) ==
    IF it.stage = 0 THEN Await(it, 1, {RegistryUrl(pkg)})
    ELSE IF o = "reject" THEN Throw(it, pkg, "fetch rejected")
    ELSE IF ~ResponseOk(o) THEN Throw(it, pkg, "Failed to fetch package info")
    ELSE IF o = "badjson" THEN Throw(it, pkg, "invalid json")
    ELSE IF ~isNpmPackageInfo(Body(o))
    THEN Throw(it, pkg, "Invalid package info data received")
    ELSE IF Body(o).latest = "undef" \/ Body(o).versions # "hasLatest"
    THEN Throw(it, pkg, "No latest version found")
    ELSE Return(it, Success(pkg, "", <<>>))

\* const limit = args.limit || 10
SearchLimit(limit) == IF limit.given /\ limit.value # 0 THEN limit.value ELSE 10

\* Math.min(1, score.final / 100), in hundredths: the number printed as the
\* percentage by (normalizedScore * 100).toFixed(0).
normalizedScore(final) == IF final < 100 THEN final ELSE 100

\* handleNpmSearch: one request for the query; every failure is thrown to
\* the catch of the handler.  The report names the limit and lists the
\* objects of the result, each name followed by its printed percentage.
handleNpmSearch(query, it, url, o) ==
    IF o = "reject" THEN Throw(it, query, "fetch rejected")
    ELSE IF ~ResponseOk(o) THEN Throw(it, query, "Failed to search packages")
    ELSE IF o = "badjson" THEN Throw(it, query, "invalid json")
    ELSE IF ~NpmSearchResultSchema(Body(o))
    THEN Throw(it, query, "Invalid search results data received")
    ELSE Return(it, Success(query, url[3],
                IF Body(o).objects = "array"
                THEN [k \in 1..(2 * Len(objects)) |->
                         IF k % 2 = 1 THEN objects[(k + 1) \div 2]
                         ELSE ToString(normalizedScore(Body(o).scoreFinal))]
                ELSE <<>>))

handleNpmLicenseCompatibility(pkg, it, url, o) ==
    IF it.stage = 0 THEN Await(it, 1, {LatestUrl(pkg)})
    ELSE IF o = "reject" THEN Throw(it, pkg, "fetch rejected")
    ELSE IF ~ResponseOk(o) THEN Throw(it, pkg, "Failed to fetch license info")
    ELSE IF o = "badjson" THEN Throw(it, pkg, "invalid json")
    ELSE IF Body(o).json = "null" THEN Throw(it, pkg, "TypeError")
    ELSE Return(it, Success(pkg, "", <<>>))

handleNpmRepoStats(pkg, it, url, o) ==
    IF it.stage = 0 THEN Await(it, 1, {LatestUrl(pkg)})
    ELSE IF it.stage = 1
    THEN IF o = "reject" THEN Throw(it, pkg, "fetch rejected")
         ELSE IF ~ResponseOk(o) THEN Throw(it, pkg, "Failed to fetch npm info")
         ELSE IF o = "badjson" THEN Throw(it, pkg, "invalid json")
         ELSE IF Body(o).json = "null" THEN Throw(it, pkg, "TypeError")
         ELSE IF Body(o).repository = "undef"
         THEN Return(it, Failure(pkg, "No repository URL found"))
         ELSE IF Body(o).repository # "github"
         THEN Return(it, Failure(pkg, "Could not parse GitHub repository URL"))
         ELSE Await(it, 2, {GithubUrl(RepoOf(pkg))})
    ELSE IF o = "reject" THEN Throw(it, pkg, "fetch rejected")
    ELSE IF ~ResponseOk(o) THEN Throw(it, pkg, "Failed to fetch GitHub stats")
    ELSE IF o = "badjson" THEN Throw(it, pkg, "invalid json")
    ELSE IF Body(o).json = "null" \/ Body(o).stats = "undef"
    THEN Throw(it, pkg, "TypeError")
    ELSE Return(it, Success(pkg, "", <<>>))

\* CheckDependency pushing onto one array shared by the lookups in progress
\* of every call, as an array declared at module level would be.
CheckDependencyShared(deprecatedDeps, dep, o) ==
    LET pushed(c) ==
            IF tool[c] = "npmDeprecated" /\ items[c] # <<>>
                                        /\ items[c][1].pc = "pending"
            THEN items[c][1].acc ELSE <<>>
        shared == pushed(1) \o pushed(2) \o pushed(3)
    IN  IF o = "reject" \/ ~ResponseOk(o) \/ o = "badjson" \/ Body(o).json = "null"
        THEN deprecatedDeps
        ELSE IF Body(o).deprecated # "undef" THEN Append(shared, dep)
        ELSE deprecatedDeps

\* The callback mapped over the dependencies: on a successful lookup of a
\* deprecated version it pushes the dependency onto the deprecatedDeps array
\* all the lookups of the package share; every failure is swallowed.
CheckDependency(deprecatedDeps, dep, o) ==
    IF o = "reject" \/ ~ResponseOk(o) \/ o = "badjson" \/ Body(o).json = "null"
    THEN deprecatedDeps
    ELSE IF Body(o).deprecated # "undef" THEN Append(deprecatedDeps, dep)
    ELSE deprecatedDeps

\* handleNpmDeprecated without the try block around the lookup of a
\* dependency: a failed lookup rejects the promise of the package.
handleNpmDeprecatedStrict(pkg, it, url, o) ==
    IF it.stage = 0 THEN Await(it, 1, {RegistryUrl(pkg)})
    ELSE IF it.stage = 1
    THEN IF o = "reject" THEN Throw(it, pkg, "fetch rejected")
         ELSE IF ~ResponseOk(o) THEN Throw(it, pkg, "Failed to fetch package info")
         ELSE IF o = "badjson" THEN Throw(it, pkg, "invalid json")
         ELSE IF ~isNpmPackageInfo(Body(o))
         THEN Throw(it, pkg, "Invalid package info data received")
         ELSE IF Body(o).latest = "undef" \/ Body(o).versions # "hasLatest"
         THEN Throw(it, pkg, "No latest version found")
         ELSE IF Body(o).dependencies = <<>>
         THEN Return(it, Success(pkg, Body(o).deprecated, <<>>))
         ELSE Await([it EXCEPT !.seen = {<<url, o>>}], 2,
                    {RegistryUrl(Body(o).dependencies[k]) :
                        k \in 1..Len(Body(o).dependencies)})
    ELSE IF o = "reject" \/ ~ResponseOk(o) \/ o = "badjson"
    THEN Throw(it, pkg, "dependency lookup failed")
    ELSE LET deprecatedDeps == CheckDependency(it.acc, url[2], o)
             latestVersionInfo == Body((CHOOSE r \in it.seen : TRUE)[2])
         IN  IF it.pend # {} THEN [it EXCEPT !.acc = deprecatedDeps]
             ELSE Return(it, Success(pkg, latestVersionInfo.deprecated, deprecatedDeps))

handleNpmDeprecated(pkg, it, url, o) ==
    IF it.stage = 0 THEN Await(it, 1, {RegistryUrl(pkg)})
    ELSE IF it.stage = 1
    THEN IF o = "reject" THEN Throw(it, pkg, "fetch rejected")
         ELSE IF ~ResponseOk(o) THEN Throw(it, pkg, "Failed to fetch package info")
         ELSE IF o = "badjson" THEN Throw(it, pkg, "invalid json")
         ELSE IF ~isNpmPackageInfo(Body(o))
         THEN Throw(it, pkg, "Invalid package info data received")
         ELSE IF Body(o).latest = "undef" \/ Body(o).versions # "hasLatest"
         THEN Throw(it, pkg, "No latest version found")
         ELSE IF Body(o).dependencies = <<>>
         THEN Return(it, Success(pkg, Body(o).deprecated, <<>>))
         ELSE Await([it EXCEPT !.seen = {<<url, o>>}], 2,
                    {RegistryUrl(Body(o).dependencies[k]) :
                        k \in 1..Len(Body(o).dependencies)})
    ELSE LET deprecatedDeps == CheckDependency(it.acc, url[2], o)
             latestVersionInfo == Body((CHOOSE r \in it.seen : TRUE)[2])
         IN  IF it.pend # {} THEN [it EXCEPT !.acc = deprecatedDeps]
             ELSE Return(it, Success(pkg, latestVersionInfo.deprecated, deprecatedDeps))

IndexOfFile(file) ==
    CHOOSE k \in 1..Len(changelogFiles) : changelogFiles[k] = file

\* The probe loop without its break: after a changelog is read the next
\* name is probed all the same.
handleNpmChangelogAnalysisNoBreak(pkg, it, url, o) ==
    IF it.stage = 0 THEN Await(it, 1, {RegistryUrl(pkg)})
    ELSE IF it.stage = 1
    THEN IF o = "reject" THEN Throw(it, pkg, "fetch rejected")
         ELSE IF ~ResponseOk(o) THEN Throw(it, pkg, "Failed to fetch npm info")
         ELSE IF o = "badjson" THEN Throw(it, pkg, "invalid json")
         ELSE IF ~isNpmPackageInfo(Body(o))
         THEN Throw(it, pkg, "Invalid package info data received")
         ELSE IF Body(o).repository = "undef"
         THEN Return(it, Failure(pkg, "No repository found"))
         ELSE IF Body(o).repository # "github"
         THEN Return(it, Failure(pkg, "Could not parse GitHub repository URL"))
         ELSE Await(it, 2, {RawUrl(RepoOf(pkg), changelogFiles[1])})
    ELSE IF it.stage = 2
    THEN IF IndexOfFile(url[3]) < Len(changelogFiles)
         THEN Await([it EXCEPT !.acc = IF o = "ok" THEN <<url[3]>> ELSE @], 2,
                    {RawUrl(RepoOf(pkg), changelogFiles[IndexOfFile(url[3]) + 1])})
         ELSE Await([it EXCEPT !.acc = IF o = "ok" THEN <<url[3]>> ELSE @], 3,
                    {ReleasesUrl(RepoOf(pkg))})
    ELSE IF o = "reject" THEN Throw(it, pkg, "fetch rejected")
    ELSE IF ~ResponseOk(o) THEN Return(it, Success(pkg, "no releases", it.acc))
    ELSE IF o = "badjson" THEN Throw(it, pkg, "invalid json")
    ELSE IF Body(o).json = "null" THEN Throw(it, pkg, "TypeError")
    ELSE IF Body(o).json = "object" /\ Body(o).stats = "undef"
    THEN Return(it, Success(pkg, "no releases", it.acc))
    ELSE Return(it, Success(pkg, "releases", it.acc))

handleNpmChangelogAnalysis(pkg, it, url, o) ==
    IF it.stage = 0 THEN Await(it, 1, {RegistryUrl(pkg)})
    ELSE IF it.stage = 1
    THEN IF o = "reject" THEN Throw(it, pkg, "fetch rejected")
         ELSE IF ~ResponseOk(o) THEN Throw(it, pkg, "Failed to fetch npm info")
         ELSE IF o = "badjson" THEN Throw(it, pkg, "invalid json")
         ELSE IF ~isNpmPackageInfo(Body(o))
         THEN Throw(it, pkg, "Invalid package info data received")
         ELSE IF Body(o).repository = "undef"
         THEN Return(it, Failure(pkg, "No repository found"))
         ELSE IF Body(o).repository # "github"
         THEN Return(it, Failure(pkg, "Could not parse GitHub repository URL"))
         ELSE Await(it, 2, {RawUrl(RepoOf(pkg), changelogFiles[1])})
    ELSE IF it.stage = 2
    THEN IF o = "ok"
         THEN Await([it EXCEPT !.acc = <<url[3]>>], 3, {ReleasesUrl(RepoOf(pkg))})
         ELSE IF IndexOfFile(url[3]) < Len(changelogFiles)
         THEN Await(it, 2, {RawUrl(RepoOf(pkg), changelogFiles[IndexOfFile(url[3]) + 1])})
         ELSE Await(it, 3, {ReleasesUrl(RepoOf(pkg))})
    ELSE IF o = "reject" THEN Throw(it, pkg, "fetch rejected")
    ELSE IF ~ResponseOk(o) THEN Return(it, Success(pkg, "no releases", it.acc))
    ELSE IF o = "badjson" THEN Throw(it, pkg, "invalid json")
    ELSE IF Body(o).json = "null" THEN Throw(it, pkg, "TypeError")
    ELSE IF Body(o).json = "object" /\ Body(o).stats = "undef"
    THEN Return(it, Success(pkg, "no releases", it.acc))
    ELSE Return(it, Success(pkg, "releases", it.acc))

\* What the download lookup of one alternative returns: 0 on every failure,
\* downloadData.downloads otherwise (undefined when the body has no such field).
AlternativeDownloads(o) ==
    IF o = "reject" \/ ~ResponseOk(o) \/ o = "badjson" \/ Body(o).json = "null"
    THEN "zero"
    ELSE Body(o).downloads

\* fetch(...).then(res => res.json()).then(data => data.downloads).catch(() => 0):
\* the status is not looked at; the body of a 404 is a JSON object without
\* downloads, the body of a 500 is not JSON.
OriginalDownloads(o) ==
    IF o \in {"reject", "badjson", "servererr"} \/ (ResponseOk(o) /\ Body(o).json = "null")
    THEN "zero"
    ELSE IF o = "notfound" THEN "undef"
    ELSE Body(o).downloads

handleNpmAlternatives(pkg, it, url, o) ==
    IF it.stage = 0 THEN Await(it, 1, {SearchUrl(pkg)})
    ELSE IF it.stage = 1
    THEN IF o = "reject" THEN Throw(it, pkg, "fetch rejected")
         ELSE IF ~ResponseOk(o) THEN Throw(it, pkg, "Failed to search for alternatives")
         ELSE IF o = "badjson" THEN Throw(it, pkg, "invalid json")
         ELSE IF Body(o).json = "null" \/ Body(o).objects = "undef"
         THEN Throw(it, pkg, "TypeError")
         ELSE IF Body(o).objects = "emptyArray"
         THEN Await(it, 3, {DownloadsUrl("last-month", pkg)})
         ELSE Await([it EXCEPT !.acc = objects], 2,
                    {DownloadsUrl("last-month", objects[k]) : k \in 1..Len(objects)})
    ELSE IF it.stage = 2
    THEN IF it.pend # {}
         THEN [it EXCEPT !.seen = @ \cup {<<url, AlternativeDownloads(o)>>}]
         ELSE Await([it EXCEPT !.seen = @ \cup {<<url, AlternativeDownloads(o)>>}], 3,
                    {DownloadsUrl("last-month", pkg)})
    ELSE IF OriginalDownloads(o) = "undef" THEN Throw(it, pkg, "TypeError")
    ELSE IF it.acc = <<>> THEN Throw(it, pkg, "TypeError")
    ELSE IF \E r \in it.seen : r[2] = "undef" THEN Throw(it, pkg, "TypeError")
    ELSE Return(it, Success(pkg, "", it.acc))

-----------------------------------------------------------------------------
(* The handlers: the callback of each tool, the guard on an empty list,    *)
(* the report built from the results of Promise.all, and the outer catch.  *)

Callback(t, period, pkg, it, url, o) ==
    CASE t = "npmVersions" -> handleNpmVersions(pkg, it, url, o)
      [] t = "npmLatest" -> handleNpmLatest(pkg, it, url, o)
      [] t = "npmDeps" -> handleNpmDeps(pkg, it, url, o)
      [] t = "npmTypes" -> handleNpmTypes(pkg, it, url, o)
      [] t = "npmSize" -> handleNpmSize(pkg, it, url, o)
      [] t = "npmVulnerabilities" -> handleNpmVulnerabilities(pkg, it, url, o)
      [] t = "npmTrends" -> handleNpmTrends(period, pkg, it, url, o)
      [] t = "npmCompare" -> handleNpmCompare(pkg, it, url, o)
      [] t = "npmQuality" -> handleNpmQuality(pkg, it, url, o)
      [] t = "npmMaintenance" -> handleNpmMaintenance(pkg, it, url, o)
      [] t = "npmMaintainers" -> handleNpmMaintainers(pkg, it, url, o)
      [] t = "npmScore" -> handleNpmScore(pkg, it, url, o)
      [] t = "npmPackageReadme" -> handleNpmPackageReadme(pkg, it, url, o)
      [] t = "npmLicenseCompatibility" ->
             handleNpmLicenseCompatibility(pkg, it, url, o)
      [] t = "npmRepoStats" -> handleNpmRepoStats(pkg, it, url, o)
      [] t = "npmDeprecated" -> handleNpmDeprecated(pkg, it, url, o)
      [] t = "npmChangelogAnalysis" -> handleNpmChangelogAnalysis(pkg, it, url, o)
      [] t = "npmSearch" -> handleNpmSearch(pkg, it, url, o)
      [] OTHER -> handleNpmAlternatives(pkg, it, url, o)

\* if (packagesToProcess.length === 0) throw new Error('No package names provided')
\* The handler awaits Promise.all inside a try block whose catch returns an
\* error response; handleNpmVersions and handleNpmLatest await it bare.
OuterCatch(t) == t \notin {"npmVersions", "npmLatest"}

ThrowsOnEmpty(t) == t \in {"npmDeps", "npmSize", "npmVulnerabilities"}

\* A fan-out that collects each result when its promise fulfils.
PromiseAllInCompletionOrder(its) ==
    [k \in 1..Len(its) |-> its[CHOOSE i \in 1..Len(its) : its[i].at = k].res]

\* The array Promise.all fulfils with: the values of the promises in the
\* order of the promises, whatever the order they were fulfilled in.
PromiseAll(its) == [i \in 1..Len(its) |-> its[i].res]

\* content: one text block per result that succeeded.
BlockPerSuccess(results) ==
    LET succeeded(r) == r.kind = "ok"
    IN  [k \in 1..Len(SelectSeq(results, succeeded)) |->
            <<SelectSeq(results, succeeded)[k]>>]

\* content: one text block per result (handleNpmVersions, handleNpmLatest)
BlockPerResult(results) == [k \in 1..Len(results) |-> <<results[k]>>]

\* content: one text block, the sections of the results appended in a loop
OneBlock(before, results, after) == <<before \o results \o after>>

\* const periodDays = { 'last-week': 7, 'last-month': 30, 'last-year': 365 };
\* periodDays[period] of any other period is undefined.
periodDays(period) ==
    CASE period = "last-week" -> "7"
      [] period = "last-month" -> "30"
      [] period = "last-year" -> "365"
      [] OTHER -> "undefined"

\* `Period: ${period} (${periodDays[period]} days)`
TrendsHeader(period) == [Header(period) EXCEPT !.detail = <<periodDays(period)>>]

Content(t, period, results) ==
    CASE t \in {"npmVersions", "npmLatest"} -> BlockPerResult(results)
      [] t = "npmTrends" ->
             OneBlock(<<TrendsHeader(TrendsPeriod(period))>>, results,
                      <<Footer("totals")>>)
      [] t = "npmLicenseCompatibility" ->
             OneBlock(<<Header(t)>>, results, <<Footer("Compatibility Analysis")>>)
      [] t \in {"npmVulnerabilities", "npmCompare", "npmQuality", "npmMaintenance",
                "npmMaintainers", "npmScore"} ->
             OneBlock(<<Header(t)>>, results, <<>>)
      [] OTHER -> OneBlock(<<>>, results, <<>>)

Report(t, period, results) ==
    [isError |-> FALSE, content |-> Content(t, period, results)]

\* catch (error) { return { content: [{ type: 'text', text: ... }], isError: true } }
Catch(msg) == [isError |-> TRUE, content |-> <<<<ErrorText(msg)>>>>]

NoResponse == [isError |-> FALSE, content |-> <<>>]

-----------------------------------------------------------------------------
(* The state of the calls and what each call may get from upstream.        *)

\* The package, dependency or search result a request is about.
Subject(url) ==
    CASE url[2] \in {"a", "o/a", "@types/a"} -> "a"
      [] url[2] \in {"b", "o/b", "@types/b"} -> "b"
      [] OTHER -> url[2]

Subjects == Pkgs \cup {DepNames[k] : k \in 1..Len(DepNames)}
                 \cup {AltNames[k] : k \in 1..Len(AltNames)}

\* Upstream with nothing pinned, and upstream answering every request about
\* a subject in S with class o and every other request with ok.
Free == [x \in Subjects |-> "any"]
Pinned(S, o) == [x \in Subjects |-> IF x \in S THEN o ELSE "ok"]

\* The classes of response a request to url may get.
Allowed(url) ==
    IF upstream[Subject(url)] = "any" THEN OutcomesOf(url)
    ELSE IF upstream[Subject(url)] \in OutcomesOf(url) THEN {upstream[Subject(url)]}
    ELSE {"ok"}

\* A request has failed: non-2xx status, rejected fetch, a body that cannot
\* be read, is not JSON or is null where the handler reads an object.
Failed(o) == o \in FailOutcomes \cup {"null", "detailnull", "badbody"}

NoFetchLog == [failed |-> {}, afterFailure |-> {}, repeated |-> {}]

\* args.limit: undefined, or a number.
NoLimit == [given |-> FALSE, value |-> 0]
Limit(n) == [given |-> TRUE, value |-> n]

\* No tools/call request received.
NoRequest == [name |-> "none"]

\* The completions of a call, recorded or not.
Recorded == [on |-> TRUE, events |-> <<>>]
NotRecorded == [on |-> FALSE, events |-> <<>>]

Idle ==
    /\ pc = [c \in Calls |-> "idle"]
    /\ tool = [c \in Calls |-> "none"]
    /\ args = [c \in Calls |->
                  [packages |-> <<>>, period |-> "undefined", limit |-> NoLimit]]
    /\ items = [c \in Calls |-> <<>>]
    /\ response = [c \in Calls |-> NoResponse]
    /\ issued = [c \in Calls |-> {}]
    /\ fetchLog = [c \in Calls |-> NoFetchLog]
    /\ registered = <<>>
    /\ connected = FALSE
    /\ request = [c \in Calls |-> NoRequest]

\* The registry availableTools of ./tools/index.js: tools with unique names,
\* each with a description, an input schema and a handler.
ToolNames == <<"t1", "t2", "t3", "t4", "t5">>
Tool(name) ==
    [name |-> name, description |-> <<"description", name>>,
     inputSchema |-> <<"schema", name>>, handler |-> <<"handler", name>>]
NoTool == Tool("none")

\* The McpUtilityServer before its constructor has run.
NoReply ==
    [method |-> "none", name |-> "", arguments |-> <<>>, error |-> "none",
     handler |-> <<>>, tools |-> <<>>]
NoUtility ==
    [tools |-> <<>>, toolHandler |-> NoTool, initialized |-> 0, started |-> FALSE,
     requests |-> 0, invocations |-> <<>>, listed |-> {}, reply |-> NoReply,
     throws |-> 0, rejected |-> FALSE, exit |-> <<>>]

\* isNpmPackageInfo not applied yet.
NotChecked == [data |-> EmptyBody, called |-> FALSE, value |-> FALSE]

NotValidated == [called |-> FALSE, threw |-> FALSE, value |-> FALSE]

Init ==
    /\ Idle
    /\ completions = [c \in Calls |-> NotRecorded]
    /\ upstream \in {Free, Pinned({"b"}, "notfound"), Pinned({"b"}, "null")}
    /\ npmsData = ValidNpms
    /\ npmsResult = NotValidated
    /\ utility = NoUtility
    /\ packageInfo = NotChecked

\* The tool callback registered with server.tool calls the handler; the
\* handler runs up to its await of Promise.all: every item's callback has been
\* called and has issued its first requests.
CallTool(c, t, packages, period) ==
    /\ pc[c] = "idle"
    /\ t = "npmTrends" \/ period = "undefined"
    /\ tool' = [tool EXCEPT ![c] = t]
    /\ args' = [args EXCEPT ![c] =
                    [packages |-> packages, period |-> period, limit |-> NoLimit]]
    /\ LET started == [i \in 1..Len(packages) |->
                          Callback(t, period, packages[i], NewItem, NoUrl, "ok")]
       IN  IF ThrowsOnEmpty(t) /\ Len(packages) = 0
           THEN /\ items' = [items EXCEPT ![c] = <<>>]
                /\ issued' = issued
                /\ fetchLog' = fetchLog
                /\ response' = [response EXCEPT ![c] = Catch("No package names provided")]
                /\ pc' = [pc EXCEPT ![c] = "returned"]
           ELSE /\ items' = [items EXCEPT ![c] = started]
                /\ issued' = [issued EXCEPT ![c] =
                       UNION {{[item |-> i, url |-> u, after |-> FALSE] :
                                  u \in started[i].pend} : i \in 1..Len(packages)}]
                /\ fetchLog' = [fetchLog EXCEPT ![c] = NoFetchLog]
                /\ IF Len(packages) = 0
                   THEN /\ response' = [response EXCEPT ![c] = Report(t, period, <<>>)]
                        /\ pc' = [pc EXCEPT ![c] = "returned"]
                   ELSE /\ response' = response
                        /\ pc' = [pc EXCEPT ![c] = "awaiting"]
    /\ UNCHANGED <<upstream, utility, packageInfo, npmsData, npmsResult,
                   registered, connected, completions>>

\* handleNpmSearch is called: it runs up to its await of the one fetch.
CallSearch(c, query, limit) ==
    /\ pc[c] = "idle"
    /\ tool' = [tool EXCEPT ![c] = "npmSearch"]
    /\ args' = [args EXCEPT ![c] =
                    [packages |-> <<query>>, period |-> "undefined", limit |-> limit]]
    /\ LET fetch == SearchTextUrl(query, SearchLimit(limit))
       IN  /\ items' = [items EXCEPT ![c] = <<Await(NewItem, 1, {fetch})>>]
           /\ issued' = [issued EXCEPT ![c] =
                             {[item |-> 1, url |-> fetch, after |-> FALSE]}]
    /\ fetchLog' = [fetchLog EXCEPT ![c] = NoFetchLog]
    /\ pc' = [pc EXCEPT ![c] = "awaiting"]
    /\ UNCHANGED <<response, upstream, utility, packageInfo, npmsData,
                   npmsResult, registered, connected, completions>>

\* A request of item i of call c settles with a response of class o.  The
\* item's callback, if it is still running, goes on to its next await, its
\* return or its throw; Promise.all rejects with the first item that rejects
\* and fulfils when every item has fulfilled; the handler then returns.
Settle(c, i, url, o) ==
    /\ pc[c] \in {"awaiting", "returned", "rejected"}
    /\ i \in 1..Len(items[c])
    /\ url \in items[c][i].pend
    /\ o \in Allowed(url)
    /\ LET before == items[c][i]
           taken == [before EXCEPT !.pend = @ \ {url}]
           resumed == IF before.pc = "pending"
                      THEN Callback(tool[c], args[c].period, args[c].packages[i],
                                    taken, url, o)
                      ELSE taken
           after == IF resumed.pc = "fulfilled" /\ before.pc = "pending"
                    THEN [resumed EXCEPT !.at =
                             1 + Cardinality({j \in 1..Len(items[c]) :
                                                 items[c][j].pc = "fulfilled"})]
                    ELSE resumed
           its == [items[c] EXCEPT ![i] = after]
       IN  /\ items' = [items EXCEPT ![c] = its]
           /\ issued' = [issued EXCEPT ![c] = @ \cup
                            {[item |-> i, url |-> u, after |-> TRUE] :
                                u \in after.pend \ taken.pend}]
           /\ fetchLog' = [fetchLog EXCEPT ![c] =
                  LET failed == IF Failed(o) THEN @.failed \cup {i} ELSE @.failed
                      new == {<<i, u>> : u \in after.pend \ taken.pend}
                  IN  [failed |-> failed,
                       afterFailure |->
                           @.afterFailure \cup (IF i \in failed THEN new ELSE {}),
                       repeated |->
                           @.repeated \cup
                               {n \in new : \E r \in issued[c] :
                                                r.item = i /\ r.url = n[2]}]]
           /\ IF pc[c] = "awaiting" /\ before.pc = "pending" /\ after.pc = "rejected"
              THEN IF OuterCatch(tool[c])
                   THEN /\ response' = [response EXCEPT ![c] = Catch(after.res.reason)]
                        /\ pc' = [pc EXCEPT ![c] = "returned"]
                   ELSE /\ response' = response
                        /\ pc' = [pc EXCEPT ![c] = "rejected"]
              ELSE IF pc[c] = "awaiting" /\ \A j \in 1..Len(its) : its[j].pc = "fulfilled"
              THEN /\ response' = [response EXCEPT ![c] =
                          Report(tool[c], args[c].period, PromiseAll(its))]
                   /\ pc' = [pc EXCEPT ![c] = "returned"]
              ELSE UNCHANGED <<response, pc>>
    /\ completions' = [completions EXCEPT ![c] =
                           IF @.on THEN [@ EXCEPT !.events = Append(@, <<i, url, o>>)]
                           ELSE @]
    /\ UNCHANGED <<tool, args, upstream, utility, packageInfo, npmsData,
                   npmsResult, serverVars>>

Next ==
    \/ /\ pc[1] = "idle"
       /\ \E t \in PackageTools, period \in PeriodArgs :
              \E packages \in PkgLists(t) :
                  CallTool(1, t, packages, period) /\ UNCHANGED request
    \/ \E i \in 1..Len(items[1]) :
           \E url \in items[1][i].pend, o \in Outcomes :
               Settle(1, i, url, o)

Spec == Init /\ [][Next]_vars

\* Every upstream request of the call eventually settles.
RequestsSettle ==
    \E i \in 1..Len(items[1]) :
        \E url \in items[1][i].pend, o \in Outcomes :
            Settle(1, i, url, o)

\* One call of any handler with a short list of distinct packages.
NextLive ==
    \/ /\ pc[1] = "idle"
       /\ \E t \in PackageTools, period \in PeriodArgs :
              \E packages \in {SubSeq(<<"a", "b">>, 1, n) : n \in 0..MaxNestedPkgs} :
                  CallTool(1, t, packages, period) /\ UNCHANGED request
    \/ RequestsSettle

\* The upstream answers every request on its own, and no request stays
\* pending for ever.
InitLive == Init /\ upstream = Free

SpecLive == InitLive /\ [][NextLive]_vars /\ WF_vars(RequestsSettle)

-----------------------------------------------------------------------------
(* The server: the tools are registered in the order of the module, the    *)
(* server is connected, and each tools/call request is checked against the *)
(* registry and the input schema of the tool before its callback runs.     *)

\* The registrations with the name npmScore given a second time, to the
\* tool registered as npmQuality.
ServerToolsTwice ==
    <<"npmVersions", "npmLatest", "npmDeps", "npmTypes", "npmSize",
      "npmVulnerabilities", "npmTrends", "npmCompare", "npmMaintainers",
      "npmScore", "npmPackageReadme", "npmSearch", "npmLicenseCompatibility",
      "npmRepoStats", "npmDeprecated", "npmChangelogAnalysis", "npmAlternatives",
      "npmScore", "npmMaintenance">>

\* The names given to server.tool, in the order of the calls.
ServerTools ==
    <<"npmVersions", "npmLatest", "npmDeps", "npmTypes", "npmSize",
      "npmVulnerabilities", "npmTrends", "npmCompare", "npmMaintainers",
      "npmScore", "npmPackageReadme", "npmSearch", "npmLicenseCompatibility",
      "npmRepoStats", "npmDeprecated", "npmChangelogAnalysis", "npmAlternatives",
      "npmQuality", "npmMaintenance">>

\* The names of the entries of the exported TOOLS list.
TOOLS ==
    <<"npmVersions", "npmLatest", "npmDeps", "npmTypes", "npmSize",
      "npmVulnerabilities", "npmTrends", "npmCompare", "npmMaintainers",
      "npmScore", "npmPackageReadme", "npmSearch">>

Range(seq) == {seq[k] : k \in 1..Len(seq)}

\* server.tool(name, description, schema, callback); it throws when the name
\* is registered already.
RegisterTool ==
    /\ ~connected
    /\ Len(registered) < Len(ServerTools)
    /\ ServerTools[Len(registered) + 1] \notin Range(registered)
    /\ registered' = Append(registered, ServerTools[Len(registered) + 1])
    /\ UNCHANGED <<pc, tool, args, items, response, issued, upstream, utility,
                   packageInfo, npmsData, npmsResult, fetchLog, connected,
                   request, completions>>

\* await server.connect(transport), after the last registration
Connect ==
    /\ ~connected
    /\ Len(registered) = Len(ServerTools)
    /\ connected' = TRUE
    /\ UNCHANGED <<pc, tool, args, items, response, issued, upstream, utility,
                   packageInfo, npmsData, npmsResult, fetchLog, registered,
                   request, completions>>

\* The arguments of a tools/call request: packages is an array of strings,
\* an array holding a number, a string, or absent; period and limit are
\* absent or hold a value; query is a string or absent.
Arguments(packagesType, packages, period, queryType, query, limit) ==
    [packagesType |-> packagesType, packages |-> packages, period |-> period,
     queryType |-> queryType, query |-> query, limit |-> limit]

\* The input schema without the lower bound on the length of packages.
InputSchemaNoMin(name, arguments) ==
    CASE name = "npmSearch" ->
             /\ arguments.queryType = "string"
             /\ \/ ~arguments.limit.given
                \/ arguments.limit.value \in 1..50
      [] name = "npmTrends" ->
             /\ arguments.packagesType = "array"
             /\ arguments.period \in Periods \cup {"undefined"}
      [] OTHER -> arguments.packagesType = "array"

\* The arguments satisfy the schema the tool was registered with.
InputSchema(name, arguments) ==
    CASE name = "npmSearch" ->
             /\ arguments.queryType = "string"
             /\ \/ ~arguments.limit.given
                \/ arguments.limit.value \in 1..50
      [] name = "npmTrends" ->
             /\ arguments.packagesType = "array"
             /\ arguments.period \in Periods \cup {"undefined"}
      [] name = "npmLicenseCompatibility" ->
             /\ arguments.packagesType = "array"
             /\ Len(arguments.packages) >= 1
      [] OTHER -> arguments.packagesType = "array"

\* The period the callback of a tool receives: the schema of npmTrends
\* defaults it to last-month, the other schemas have no such key.
ParsedPeriod(name, arguments) ==
    IF name # "npmTrends" THEN "undefined"
    ELSE IF arguments.period = "undefined" THEN "last-month"
    ELSE arguments.period

\* The error a request gets that does not reach a callback.
RpcError(msg) ==
    [isError |-> TRUE,
     content |-> <<<<[kind |-> "rpcError", name |-> "", reason |-> msg,
                      detail |-> <<>>]>>>>]

\* The server receives a tools/call request for name with arguments.
Dispatch(c, name, arguments) ==
    /\ connected
    /\ pc[c] = "idle"
    /\ request' = [request EXCEPT ![c] = [name |-> name, arguments |-> arguments]]
    /\ IF name \notin Range(registered) \/ ~InputSchema(name, arguments)
       THEN /\ response' = [response EXCEPT ![c] =
                   RpcError(IF name \notin Range(registered)
                            THEN "Tool not found" ELSE "Invalid arguments")]
            /\ pc' = [pc EXCEPT ![c] = "returned"]
            /\ UNCHANGED <<tool, args, items, issued, fetchLog, upstream,
                           utility, packageInfo, npmsData, npmsResult,
                           registered, connected, completions>>
       ELSE IF name = "npmSearch"
       THEN CallSearch(c, arguments.query, arguments.limit)
       ELSE CallTool(c, name, arguments.packages, ParsedPeriod(name, arguments))

\* The requests a client sends.
RequestNames == Range(ServerTools) \cup {"npmUnknown"}
RequestPeriods == {"undefined", "last-year", "yesterday"}
RequestLimits == {NoLimit, Limit(0), Limit(1), Limit(50), Limit(51)}
RequestArguments ==
    {Arguments("array", packages, "undefined", "undefined", "", NoLimit) :
        packages \in PkgLists("npmDeprecated")}
    \cup {Arguments("array", <<pkg>>, period, "undefined", "", NoLimit) :
              pkg \in Pkgs, period \in RequestPeriods}
    \cup {Arguments(type, <<>>, "undefined", "undefined", "", NoLimit) :
              type \in {"numbers", "string", "undefined"}}
    \cup {Arguments("undefined", <<>>, "undefined", "string", query, limit) :
              query \in Pkgs, limit \in RequestLimits}

InitServer ==
    /\ Idle
    /\ completions = [c \in Calls |-> NotRecorded]
    /\ upstream \in {Free, Pinned({"b"}, "notfound")}
    /\ npmsData = ValidNpms
    /\ npmsResult = NotValidated
    /\ utility = NoUtility
    /\ packageInfo = NotChecked

NextServer ==
    \/ RegisterTool
    \/ Connect
    \/ /\ connected
       /\ pc[1] = "idle"
       /\ \E name \in RequestNames, arguments \in RequestArguments :
              Dispatch(1, name, arguments)
    \/ \E i \in 1..Len(items[1]) :
           \E url \in items[1][i].pend, o \in Outcomes :
               Settle(1, i, url, o)

SpecServer == InitServer /\ [][NextServer]_vars

-----------------------------------------------------------------------------
(* Two calls of the same tool with the same arguments against registries   *)
(* whose answers are fixed.                                                *)

InitPair ==
    /\ Idle
    /\ completions = [c \in Calls |-> NotRecorded]
    /\ upstream \in {Pinned({}, "ok"),
                     Pinned({DepNames[k] : k \in 1..Len(DepNames)}, "okDeprecated"),
                     Pinned({"b"}, "notfound")}
    /\ npmsData = ValidNpms
    /\ npmsResult = NotValidated
    /\ utility = NoUtility
    /\ packageInfo = NotChecked

NextPair ==
    \/ /\ pc[1] = "idle"
       /\ \E t \in PackageTools, period \in PeriodArgs :
              \E packages \in PkgLists(t) :
                  CallTool(1, t, packages, period) /\ UNCHANGED request
    \/ /\ pc[1] # "idle"
       /\ CallTool(2, tool[1], args[1].packages, args[1].period)
       /\ UNCHANGED request
    \/ \E c \in Calls :
           \E i \in 1..Len(items[c]) :
               \E url \in items[c][i].pend, o \in Outcomes :
                   Settle(c, i, url, o)

SpecPair == InitPair /\ [][NextPair]_vars

-----------------------------------------------------------------------------
(* Two calls running concurrently, and afterwards the first of them once   *)
(* more, alone: call 3 has the tool and arguments of call 1 and gets the   *)
(* completions call 1 got, in the same order, at a time when no other call *)
(* is running.                                                             *)

\* The tools call 2 may be of, next to the tool of call 1.
ConcurrentTools == {"npmLatest", "npmDeprecated"}

\* Each of the calls is about one package.
TwoCallLists == {<<pkg>> : pkg \in Pkgs}

\* Call c has returned and none of its requests is in flight.
Quiet(c) == pc[c] = "returned" /\ \A i \in 1..Len(items[c]) : items[c][i].pend = {}

InitTwo ==
    /\ Idle
    /\ completions = [c \in Calls |-> IF c = 2 THEN NotRecorded ELSE Recorded]
    /\ upstream \in {Pinned({}, "ok"),
                     Pinned({DepNames[k] : k \in 1..Len(DepNames)}, "okDeprecated"),
                     Pinned({"b"}, "notfound")}
    /\ npmsData = ValidNpms
    /\ npmsResult = NotValidated
    /\ utility = NoUtility
    /\ packageInfo = NotChecked

StartAlone ==
    /\ Quiet(1)
    /\ Quiet(2)
    /\ CallTool(3, tool[1], args[1].packages, args[1].period)
    /\ UNCHANGED request

Replay ==
    /\ pc[3] # "idle"
    /\ Len(completions[3].events) < Len(completions[1].events)
    /\ LET e == completions[1].events[Len(completions[3].events) + 1]
       IN  Settle(3, e[1], e[2], e[3])

NextTwo ==
    \/ /\ pc[1] = "idle"
       /\ \E t \in PackageTools, packages \in TwoCallLists :
              CallTool(1, t, packages, "undefined") /\ UNCHANGED request
    \/ /\ pc[1] # "idle"
       /\ pc[2] = "idle"
       /\ \E t \in {tool[1]} \cup ConcurrentTools, packages \in TwoCallLists :
              CallTool(2, t, packages, "undefined") /\ UNCHANGED request
    \/ \E c \in {1, 2} :
           \E i \in 1..Len(items[c]) :
               \E url \in items[c][i].pend, o \in Outcomes :
                   Settle(c, i, url, o)
    \/ StartAlone
    \/ Replay

SpecTwo == InitTwo /\ [][NextTwo]_vars

-----------------------------------------------------------------------------
(* McpUtilityServer (src/unnamed/part_003).  The constructor installs the  *)
(* handler of tools/list; start() runs initializeTools and then connects.  *)
(* Server.setRequestHandler(schema, handler) files the handler under the   *)
(* method literal of the schema, in place of the handler filed under that  *)
(* method before; a request is parsed with the schema before the handler   *)
(* is called.                                                              *)

\* The state of the server of src/index.ts and of its calls.
indexVars ==
    <<pc, tool, args, items, response, issued, upstream, npmsData, npmsResult,
      fetchLog, registered, connected, request, completions, packageInfo>>

\* The registries the server may be built with: the tools in any order.
availableTools ==
    UNION {{[k \in 1..n |-> Tool(names[k])] :
               names \in {f \in [1..n -> {ToolNames[k] : k \in 1..MaxTools}] :
                             \A j, k \in 1..n : j # k => f[j] # f[k]}} :
           n \in 0..MaxTools}

\* The arguments of a request, named by the input schema they satisfy.
ToolArguments ==
    {Tool(ToolNames[k]).inputSchema : k \in 1..MaxTools} \cup {<<"schema", "none">>}

\* schemaConverter.toZod(tool.inputSchema) accepts the arguments.
zodSchema(inputSchema, arguments) == arguments = inputSchema

\* The descriptors of the tools whose handler is installed.
ListToolsInstalled(tools) ==
    LET installed(t) == t.name = utility.toolHandler.name
    IN  [k \in 1..Len(SelectSeq(tools, installed)) |->
            [name |-> SelectSeq(tools, installed)[k].name,
             description |-> SelectSeq(tools, installed)[k].description,
             schema |-> SelectSeq(tools, installed)[k].inputSchema]]

\* this.tools.map((tool) => ({ name, description, schema: tool.inputSchema }))
ListTools(tools) ==
    [k \in 1..Len(tools) |->
        [name |-> tools[k].name, description |-> tools[k].description,
         schema |-> tools[k].inputSchema]]

\* new McpUtilityServer()
InitUtility ==
    /\ Idle
    /\ completions = [c \in Calls |-> NotRecorded]
    /\ upstream = Free
    /\ npmsData = ValidNpms
    /\ npmsResult = NotValidated
    /\ packageInfo = NotChecked
    /\ \E tools \in availableTools, throws \in 0..MaxTools :
           /\ throws <= Len(tools)
           /\ utility = [NoUtility EXCEPT
                             !.tools = tools,
                             !.throws = throws,
                             !.invocations = [k \in 1..MaxTools |-> 0]]

\* registerTool with a catch block that logs the error and returns.
registerToolSwallow ==
    /\ ~utility.started
    /\ ~utility.rejected
    /\ utility.initialized < Len(utility.tools)
    /\ utility' = [utility EXCEPT
                       !.toolHandler = IF utility.initialized + 1 = utility.throws
                                       THEN @
                                       ELSE utility.tools[utility.initialized + 1],
                       !.initialized = @ + 1]
    /\ UNCHANGED indexVars

\* One turn of the loop of initializeTools: registerTool(tool) files the
\* handler of the tool under the method 'tool'.  When the registration
\* throws (utility.throws is the position of such a tool, 0 for none),
\* registerTool logs and throws again, start() logs and rejects, and the
\* catch of the auto-start calls process.exit(1).
registerTool ==
    /\ ~utility.started
    /\ ~utility.rejected
    /\ utility.initialized < Len(utility.tools)
    /\ utility' = IF utility.initialized + 1 = utility.throws
                  THEN [utility EXCEPT !.rejected = TRUE, !.exit = <<1>>]
                  ELSE [utility EXCEPT
                           !.toolHandler = utility.tools[utility.initialized + 1],
                           !.initialized = @ + 1]
    /\ UNCHANGED indexVars

\* start(): after initializeTools, await this.server.connect(this.transport)
start ==
    /\ ~utility.started
    /\ ~utility.rejected
    /\ utility.initialized = Len(utility.tools)
    /\ utility' = [utility EXCEPT !.started = TRUE]
    /\ UNCHANGED indexVars

IndexOfTool(name) == CHOOSE k \in 1..Len(ToolNames) : ToolNames[k] = name

\* A request { method: 'tool', params: { name, arguments } }.
ToolRequest(name, arguments) ==
    /\ utility.started
    /\ utility.requests < MaxRequests
    /\ LET installed == utility.toolHandler
           parsed == /\ installed # NoTool
                     /\ name = installed.name
                     /\ zodSchema(installed.inputSchema, arguments)
       IN  utility' = [utility EXCEPT
               !.requests = @ + 1,
               !.invocations =
                   IF parsed THEN [@ EXCEPT ![IndexOfTool(name)] = @ + 1] ELSE @,
               !.reply =
                   [method |-> "tool", name |-> name, arguments |-> arguments,
                    error |-> IF installed = NoTool THEN "Method not found"
                              ELSE IF ~parsed THEN "ZodError" ELSE "none",
                    handler |-> IF parsed THEN installed.handler ELSE <<>>,
                    tools |-> <<>>]]
    /\ UNCHANGED indexVars

\* A request { method: 'tools/list' }.
ListRequest ==
    /\ utility.started
    /\ utility.requests < MaxRequests
    /\ utility' = [utility EXCEPT
                       !.requests = @ + 1,
                       !.listed = @ \cup {ListTools(utility.tools)},
                       !.reply = [NoReply EXCEPT
                                     !.method = "tools/list",
                                     !.tools = ListTools(utility.tools)]]
    /\ UNCHANGED indexVars

NextUtility ==
    \/ registerTool
    \/ start
    \/ \E k \in 1..(MaxTools + 1), arguments \in ToolArguments :
           ToolRequest(ToolNames[k], arguments)
    \/ ListRequest

SpecUtility == InitUtility /\ [][NextUtility]_vars

\* The start of both servers: the registrations and the connect of
\* src/index.ts beside those of McpUtilityServer.
NextStartup == RegisterTool \/ Connect \/ NextUtility

SpecStartup == InitUtility /\ [][NextStartup]_vars

-----------------------------------------------------------------------------
(* isValidNpmsResponse applied to npms.io bodies: the valid body with the  *)
(* values at up to two positions replaced.                                 *)

NpmsInputs ==
    {[ValidNpms EXCEPT ![p] = k, ![q] = l] :
        p \in NpmsPositions, q \in NpmsPositions, k \in Kinds, l \in Kinds}

InitNpms ==
    /\ Idle
    /\ completions = [c \in Calls |-> NotRecorded]
    /\ upstream = Free
    /\ npmsData \in NpmsInputs
    /\ npmsResult = NotValidated
    /\ utility = NoUtility
    /\ packageInfo = NotChecked

Validate ==
    /\ ~npmsResult.called
    /\ npmsResult' = [called |-> TRUE,
                      threw |-> isValidNpmsResponse(npmsData).threw,
                      value |-> isValidNpmsResponse(npmsData).value]
    /\ UNCHANGED <<pc, tool, args, items, response, issued, upstream, utility,
                   packageInfo, npmsData, fetchLog, serverVars, completions>>

SpecNpms == InitNpms /\ [][Validate]_vars

-----------------------------------------------------------------------------
(* isNpmPackageInfo applied to registry documents: a JSON object with each *)
(* of name, dist-tags, versions and maintainers absent, of the type the    *)
(* schema asks for, or of another type; the value null; an array.          *)

PackageInfoInputs ==
    {[FullBody EXCEPT !.name = n, !.distTags = d, !.versions = v,
                      !.maintainers = m,
                      !.latest = IF d = "record" THEN "str" ELSE "undef"] :
        n \in {"undef", "str", "num"}, d \in {"undef", "record", "str"},
        v \in {"undef", "record", "hasLatest", "str"},
        m \in {"undef", "emptyArray", "valid", "noEmail", "notArray"}}
    \cup {[EmptyBody EXCEPT !.json = j] : j \in {"null", "array"}}

InitPackageInfo ==
    /\ Idle
    /\ completions = [c \in Calls |-> NotRecorded]
    /\ upstream = Free
    /\ npmsData = ValidNpms
    /\ npmsResult = NotValidated
    /\ utility = NoUtility
    /\ packageInfo \in {[NotChecked EXCEPT !.data = data] :
                            data \in PackageInfoInputs}

CheckPackageInfo ==
    /\ ~packageInfo.called
    /\ packageInfo' = [packageInfo EXCEPT
                           !.called = TRUE,
                           !.value = isNpmPackageInfo(packageInfo.data)]
    /\ UNCHANGED <<pc, tool, args, items, response, issued, upstream, npmsData,
                   npmsResult, fetchLog, serverVars, completions, utility>>

SpecPackageInfo == InitPackageInfo /\ [][CheckPackageInfo]_vars

-----------------------------------------------------------------------------
(* Properties.                                                             *)

RECURSIVE Flatten(_)
Flatten(content) ==
    IF content = <<>> THEN <<>> ELSE Head(content) \o Flatten(Tail(content))

IsItemSection(s) == s.kind \in {"ok", "fail"}

\* The per-item sections of the response of call c, in the order of the text.
ItemSections(c) == SelectSeq(Flatten(response[c].content), IsItemSection)
SectionNames(c) == [k \in 1..Len(ItemSections(c)) |-> ItemSections(c)[k].name]
SectionKinds(c) == [k \in 1..Len(ItemSections(c)) |-> ItemSections(c)[k].kind]

Returned(c) == pc[c] = "returned"
InFlight(c) == UNION {items[c][i].pend : i \in 1..Len(items[c])}

\* C1: a response to a non-empty package list holds exactly one per-item
\* section (success or failure) for each input package, whatever the
\* upstream outcome of any item.
C1_OneResultPerItem ==
    \A c \in Calls :
        Returned(c) /\ args[c].packages # <<>> =>
            \A p \in Pkgs :
                Cardinality({k \in 1..Len(ItemSections(c)) : ItemSections(c)[k].name = p})
                    = Cardinality({k \in 1..Len(args[c].packages) : args[c].packages[k] = p})

\* C2: the per-item sections of a report name the packages in the order of
\* the input list, whatever the order the requests completed in.
C2_InputOrder ==
    \A c \in Calls :
        Returned(c) /\ ~response[c].isError => SectionNames(c) = args[c].packages

\* C2 witness: a report for two different packages whose second item was
\* fulfilled before the first.
C2_Witness ==
    /\ Returned(1)
    /\ ~response[1].isError
    /\ Len(args[1].packages) = 2
    /\ args[1].packages[1] # args[1].packages[2]
    /\ items[1][2].at = 1
    /\ items[1][1].at = 2

\* C3: a response is marked isError only when the call failed before any
\* upstream request was issued.
C3_ErrorOnlyBeforeFanOut ==
    \A c \in Calls : Returned(c) /\ response[c].isError => issued[c] = {}

\* C4: a call with an empty package list returns a top-level error.
C4_EmptyListIsError ==
    \A c \in Calls : Returned(c) /\ args[c].packages = <<>> => response[c].isError

\* C5: with two packages of which one is found and the other answers 404, the
\* report is no top-level error and holds one success and one failure
\* section, in input order.
C5_OneSuccessOneFailure ==
    \A c \in Calls :
        /\ Returned(c)
        /\ upstream = Pinned({"b"}, "notfound")
        /\ args[c].packages \in {<<"a", "b">>, <<"b", "a">>}
        => /\ ~response[c].isError
           /\ SectionNames(c) = args[c].packages
           /\ SectionKinds(c) =
                  [k \in 1..2 |-> IF args[c].packages[k] = "b" THEN "fail" ELSE "ok"]

\* C6: when the body for one package is JSON of the wrong shape (null where
\* an object is expected), that package is reported as a per-item failure,
\* the others are still reported, and the response is no top-level error.
C6_WrongShapeIsItemFailure ==
    \A c \in Calls :
        /\ Returned(c)
        /\ upstream = Pinned({"b"}, "null")
        /\ \E k \in 1..Len(args[c].packages) : args[c].packages[k] = "b"
        => /\ ~response[c].isError
           /\ SectionNames(c) = args[c].packages
           /\ SectionKinds(c) =
                  [k \in 1..Len(args[c].packages) |->
                      IF args[c].packages[k] = "b" THEN "fail" ELSE "ok"]

\* C7: isValidNpmsResponse never throws, and returns false whenever
\* score.detail.quality, popularity or maintenance is not a number.
C7_ValidatorTotal ==
    npmsResult.called =>
        /\ ~npmsResult.threw
        /\ (\E p \in {"quality", "popularity", "maintenance"} :
                ~TypeofNumber(Value(npmsData, p))) => ~npmsResult.value

\* C8: a call returns only after every upstream request it started has
\* settled.
C8_ReturnsAfterAllSettled ==
    \A c \in Calls : Returned(c) => InFlight(c) = {}

\* C9: for fixed arguments and fixed upstream responses the response is the
\* same under every interleaving of the completions: two calls with the same
\* tool and arguments return the same response.
C9_DeterministicReport ==
    /\ Returned(1) /\ Returned(2)
    /\ tool[1] = tool[2] /\ args[1] = args[2]
    /\ \A x \in Subjects : upstream[x] # "any"
    => response[1] = response[2]

IssuedBy(c, i) == {r \in issued[c] : r.item = i}

FollowUpTools == NestedTools \cup {"npmTypes", "npmRepoStats"}

FallbackTools == {"npmChangelogAnalysis", "npmAlternatives"}

C12_OneTextBlock ==
    \A c \in Calls :
        Returned(c) =>
            /\ Len(response[c].content) = 1
            /\ ~response[c].isError =>
                   Len(SelectSeq(response[c].content[1], IsItemSection))
                       = Len(args[c].packages)

\* The handler of call c has been invoked.
Invoked(c) == tool[c] # "none"

\* C13: a request naming a tool that is not registered fails without any
\* handler being invoked; a handler is invoked only for the tool the request
\* names and only with arguments that satisfy the schema of that tool
\* (packages an array of strings, non-empty for npmLicenseCompatibility;
\* period one of the three periods or absent; query a string; limit absent
\* or within 1..50); every other request fails with nothing requested
\* upstream.
C13_DispatchGuards ==
    \A c \in Calls :
        request[c].name # "none" =>
            LET name == request[c].name
                a == request[c].arguments
                valid ==
                    IF name = "npmSearch"
                    THEN /\ a.queryType = "string"
                         /\ a.limit.given => (1 <= a.limit.value /\ a.limit.value <= 50)
                    ELSE /\ a.packagesType = "array"
                         /\ name = "npmLicenseCompatibility" => a.packages # <<>>
                         /\ name = "npmTrends" =>
                                a.period \in {"undefined", "last-week", "last-month",
                                              "last-year"}
            IN  /\ Invoked(c) => tool[c] = name /\ name \in Range(registered) /\ valid
                /\ ~Invoked(c) =>
                       /\ name \notin Range(registered) \/ ~valid
                       /\ Returned(c)
                       /\ response[c].isError
                       /\ issued[c] = {}

\* C13 witness: a request for npmLicenseCompatibility with an empty list has
\* failed without the handler being invoked.
C13_Witness ==
    /\ Returned(1)
    /\ ~Invoked(1)
    /\ request[1].name = "npmLicenseCompatibility"
    /\ request[1].arguments.packagesType = "array"
    /\ request[1].arguments.packages = <<>>
    /\ response[1].isError

\* C14: the response of a call that ran concurrently with another call is
\* the response the same call produces when it runs alone and its requests
\* complete with the same responses in the same order.
C14_NoInterference ==
    /\ pc[3] # "idle"
    /\ completions[3].events = completions[1].events
    => /\ pc[3] = pc[1]
       /\ response[3] = response[1]
       /\ items[3] = items[1]

\* C14 witness: two calls of npmDeprecated ran concurrently, their dependency
\* lookups completed in different orders, and the first call has been run
\* again alone over its completions.
C14_Witness ==
    /\ Returned(3)
    /\ completions[3].events = completions[1].events
    /\ tool[1] = "npmDeprecated"
    /\ tool[2] = "npmDeprecated"
    /\ args[1] = args[2]
    /\ ~response[1].isError
    /\ response[1] # response[2]

\* C15: no two registered tools share a name and no registration is refused
\* for a name in use; no two entries of TOOLS share a name; once the server
\* is connected every server.tool call has registered its tool, and every
\* name in TOOLS is the name of a registered tool.
C15_UniqueToolNames ==
    /\ \A j, k \in 1..Len(registered) : j # k => registered[j] # registered[k]
    /\ Len(registered) < Len(ServerTools) =>
           ServerTools[Len(registered) + 1] \notin Range(registered)
    /\ \A j, k \in 1..Len(TOOLS) : j # k => TOOLS[j] # TOOLS[k]
    /\ connected =>
           /\ Len(registered) = Len(ServerTools)
           /\ Range(TOOLS) \subseteq Range(registered)

\* C15 witness: the nineteen tools are registered, the server is connected
\* and a request for a tool of the TOOLS list has reached its handler.
C15_Witness ==
    /\ connected
    /\ Len(registered) = 19
    /\ request[1].name \in Range(TOOLS)
    /\ Invoked(1)

\* C16: when a tool has failed for a package the response carries an error
\* object with a numeric code of the documented table, a message, and data
\* naming the package; the code is 1001 when the registries answer every
\* request about the package with 404.
C16_DocumentedErrorFormat ==
    \A c \in Calls :
        /\ Returned(c)
        /\ tool[c] \in PackageTools
        /\ fetchLog[c].failed # {}
        => /\ "error" \in DOMAIN response[c]
           /\ response[c].error.code \in {1000, 1001, 1002, 1003, 1004, 1005, 2000}
           /\ "message" \in DOMAIN response[c].error
           /\ response[c].error.data.packageName \in Range(args[c].packages)
           /\ upstream = Pinned({"b"}, "notfound") => response[c].error.code = 1001

\* C17: once the McpUtilityServer has started, a 'tool' request that names a
\* tool of the registry with arguments satisfying the input schema of that
\* tool is answered without error by the handler of that tool, which has
\* been invoked for it, whatever the order of the registry.
C17_EveryToolDispatchable ==
    LET r == utility.reply
    IN  /\ utility.started
        /\ r.method = "tool"
        /\ \E k \in 1..Len(utility.tools) :
               /\ utility.tools[k].name = r.name
               /\ zodSchema(utility.tools[k].inputSchema, r.arguments)
        => /\ r.error = "none"
           /\ r.handler = Tool(r.name).handler
           /\ utility.invocations[IndexOfTool(r.name)] >= 1

\* C18: every answer to tools/list holds one descriptor per tool of the
\* registry, in the order of the registry, with the name, the description
\* and the input schema of the tool; all the answers are the same list,
\* whatever tool requests were answered in between.
C18_ListIsRegistry ==
    /\ \A l \in utility.listed :
           /\ Len(l) = Len(utility.tools)
           /\ \A k \in 1..Len(l) :
                  /\ l[k].name = utility.tools[k].name
                  /\ l[k].description = utility.tools[k].description
                  /\ l[k].schema = utility.tools[k].inputSchema
    /\ Cardinality(utility.listed) <= 1
    /\ utility.reply.method = "tools/list" => utility.reply.tools \in utility.listed

\* C18 witness: a registry of two tools or more has been listed after the
\* handler of a tool was invoked.
C18_Witness ==
    /\ Len(utility.tools) >= 2
    /\ utility.reply.method = "tools/list"
    /\ Len(utility.reply.tools) >= 2
    /\ \E k \in 1..MaxTools : utility.invocations[k] > 0

\* C19: when isNpmPackageInfo returns true the value is an object with a
\* string name, a dist-tags record and a versions record; and every value
\* NpmPackageInfoSchema accepts, maintainers without an email included, is
\* accepted by isNpmPackageInfo.
C19_GuardAgreesWithSchema ==
    packageInfo.called =>
        /\ packageInfo.value =>
               /\ packageInfo.data.json = "object"
               /\ packageInfo.data.name = "str"
               /\ packageInfo.data.distTags = "record"
               /\ packageInfo.data.versions \in {"record", "hasLatest"}
        /\ NpmPackageInfoSchema(packageInfo.data) => packageInfo.value

\* C20: a call of npmTrends uses the period of its arguments when that is
\* last-week, last-month or last-year, and last-month when it is undefined,
\* empty or anything else; every request of the call is for that period,
\* and the header of the report prints that period with its number of days
\* (7, 30, 365).
C20_TrendsPeriod ==
    \A c \in Calls :
        tool[c] = "npmTrends" =>
            LET given == args[c].period
                used == IF given \in {"last-week", "last-month", "last-year"}
                        THEN given ELSE "last-month"
                days == CASE used = "last-week" -> "7"
                          [] used = "last-month" -> "30"
                          [] used = "last-year" -> "365"
            IN  /\ \A r \in issued[c] : r.url[1] = "downloads" /\ r.url[3] = used
                /\ Returned(c) /\ ~response[c].isError =>
                       /\ response[c].content[1][1].kind = "header"
                       /\ response[c].content[1][1].reason = used
                       /\ response[c].content[1][1].detail = <<days>>

\* C20 witness: npmTrends was called for two packages with a period that is
\* none of the three, and has returned its report.
C20_Witness ==
    /\ tool[1] = "npmTrends"
    /\ args[1].period = "yesterday"
    /\ Len(args[1].packages) = 2
    /\ Cardinality(issued[1]) = 2
    /\ Returned(1)
    /\ ~response[1].isError
    /\ response[1].content[1][1].reason = "last-month"

\* C21: in the report of npmSearch the percentage printed for every result
\* is between 0 and 100 (the normalised score between 0 and 1), whatever
\* score.final the registry sent; and the size requested upstream is the
\* limit of the arguments, or 10 when they have none.
C21_SearchScoreAndSize ==
    \A c \in Calls :
        tool[c] = "npmSearch" =>
            /\ \A r \in issued[c] :
                   r.url[3] = ToString(IF args[c].limit.given
                                       THEN args[c].limit.value ELSE 10)
            /\ Returned(c) /\ ~response[c].isError =>
                   LET printed == response[c].content[1][1].detail
                   IN  \A k \in 1..Len(printed) :
                           k % 2 = 0 => printed[k] \in {ToString(n) : n \in 0..100}

\* C22: when every upstream request of a call eventually settles, the call
\* eventually returns; the promise of the handler never rejects; the
\* response has a boolean isError and a content array, and once returned it
\* is never replaced.
C22_CallReturns ==
    /\ (pc[1] = "awaiting") ~> (pc[1] = "returned")
    /\ [](pc[1] # "rejected")
    /\ [](Returned(1) =>
             /\ response[1].isError \in BOOLEAN
             /\ response[1].content \in Seq(Seq([kind : STRING, name : STRING,
                                                  reason : STRING,
                                                  detail : Seq(STRING)])))
    /\ [][Returned(1) => Returned(1)' /\ response'[1] = response[1]]_vars

\* C22 witness: npmChangelogAnalysis has returned its report after a probe
\* failed, the next probe and the releases were requested, and every one
\* of its requests has settled.
C22_Witness ==
    /\ Returned(1)
    /\ tool[1] = "npmChangelogAnalysis"
    /\ ~response[1].isError
    /\ fetchLog[1].failed # {}
    /\ Cardinality(issued[1]) >= 4
    /\ \A i \in 1..Len(items[1]) : items[1][i].pend = {}

\* C23: the server of src/index.ts is connected only after every tool is
\* registered; McpUtilityServer is started, and receives requests, only
\* after every tool is registered; when the registration of a tool throws,
\* start() rejects, the transport is never connected and the process exits
\* with code 1.
C23_StartupOrdering ==
    /\ connected => Range(registered) = Range(ServerTools)
    /\ utility.started \/ utility.requests > 0 =>
           utility.initialized = Len(utility.tools)
    /\ utility.throws # 0 =>
           /\ ~utility.started
           /\ utility.initialized < utility.throws
           /\ ~ENABLED registerTool => utility.rejected
    /\ utility.rejected <=> utility.exit = <<1>>
    /\ utility.rejected => utility.throws # 0

\* C23 witness: the registration of the second tool threw after the first
\* was registered, and the process exited without connecting; the server of
\* src/index.ts is connected.
C23_Witness ==
    /\ utility.throws = 2
    /\ utility.initialized = 1
    /\ utility.rejected
    /\ utility.exit = <<1>>
    /\ ~utility.started
    /\ connected

C25_NeverTopLevelError ==
    \A c \in Calls :
        tool[c] \in {"npmVersions", "npmLatest"} =>
            /\ pc[c] # "rejected"
            /\ ~response[c].isError
            /\ InFlight(c) = {} => Returned(c)
            /\ Returned(c) =>
                   /\ Len(response[c].content) = Len(args[c].packages)
                   /\ \A k \in 1..Len(args[c].packages) :
                          /\ Len(response[c].content[k]) = 1
                          /\ response[c].content[k][1].kind \in {"ok", "fail"}
                          /\ response[c].content[k][1].name = args[c].packages[k]

\* C25 witness: handleNpmLatest returned an error text for the first package
\* and a success text for the second.
C25_Witness ==
    /\ Returned(1)
    /\ tool[1] = "npmLatest"
    /\ args[1].packages = <<"b", "a">>
    /\ response[1].content[1][1].kind = "fail"
    /\ response[1].content[2][1].kind = "ok"

\* C26: handleNpmChangelogAnalysis probes the changelog names one at a time
\* in list order; a probe answered with an ok response ends the probing and
\* its file is the changelog used; any other probe is followed by the probe
\* of the next name; no probe fails the item or the call.
C26_SequentialProbes ==
    /\ [](\A i \in 1..Len(items[1]) :
             tool[1] = "npmChangelogAnalysis" =>
                 LET probed == {r.url[3] : r \in {q \in issued[1] :
                                                     q.item = i /\ q.url[1] = "raw"}}
                 IN  /\ Cardinality({u \in items[1][i].pend : u[1] = "raw"}) <= 1
                     /\ probed = {changelogFiles[k] : k \in 1..Cardinality(probed)})
    /\ [][\A i \in 1..Len(items[1]) :
             \A url \in {u \in items[1][i].pend : u[1] = "raw"} :
                 \A o \in OutcomesOf(url) :
                     tool[1] = "npmChangelogAnalysis" /\ Settle(1, i, url, o) =>
                         LET next == {u \in items'[1][i].pend : u[1] = "raw"}
                             k == IndexOfFile(url[3])
                         IN  /\ items'[1][i].pc = "pending"
                             /\ pc'[1] = pc[1]
                             /\ response'[1] = response[1]
                             /\ IF ResponseOk(o)
                                THEN /\ next = {}
                                     /\ items'[1][i].acc = <<url[3]>>
                                ELSE /\ items'[1][i].acc = <<>>
                                     /\ next = IF k < Len(changelogFiles)
                                               THEN {RawUrl(url[2], changelogFiles[k + 1])}
                                               ELSE {}]_vars

\* C26 amended: as C26, but the probing ends at the first probe answered
\* with an ok response whose body is read; an ok response whose body cannot
\* be read is followed by the probe of the next name.
C26_Amended ==
    /\ [](\A i \in 1..Len(items[1]) :
             tool[1] = "npmChangelogAnalysis" =>
                 LET probed == {r.url[3] : r \in {q \in issued[1] :
                                                     q.item = i /\ q.url[1] = "raw"}}
                 IN  /\ Cardinality({u \in items[1][i].pend : u[1] = "raw"}) <= 1
                     /\ probed = {changelogFiles[k] : k \in 1..Cardinality(probed)})
    /\ [][\A i \in 1..Len(items[1]) :
             \A url \in {u \in items[1][i].pend : u[1] = "raw"} :
                 \A o \in OutcomesOf(url) :
                     tool[1] = "npmChangelogAnalysis" /\ Settle(1, i, url, o) =>
                         LET next == {u \in items'[1][i].pend : u[1] = "raw"}
                             k == IndexOfFile(url[3])
                         IN  /\ items'[1][i].pc = "pending"
                             /\ pc'[1] = pc[1]
                             /\ response'[1] = response[1]
                             /\ IF o = "ok"
                                THEN /\ next = {}
                                     /\ items'[1][i].acc = <<url[3]>>
                                ELSE /\ items'[1][i].acc = <<>>
                                     /\ next = IF k < Len(changelogFiles)
                                               THEN {RawUrl(url[2], changelogFiles[k + 1])}
                                               ELSE {}]_vars

\* C26 witness: the probe of CHANGELOG.md failed, changelog.md was read and
\* no third name was probed; the report names changelog.md.
C26_Witness ==
    /\ Returned(1)
    /\ tool[1] = "npmChangelogAnalysis"
    /\ Len(ItemSections(1)) = 1
    /\ ItemSections(1)[1].kind = "ok"
    /\ ItemSections(1)[1].detail = <<changelogFiles[2]>>
    /\ 1 \in fetchLog[1].failed
    /\ Cardinality({r \in issued[1] : r.url[1] = "raw"}) = 2

\* C27: in handleNpmDeprecated the lookup of a dependency, whatever its
\* outcome, neither fails the package nor the call and leaves the lookups of
\* the other dependencies in flight; the dependency joins the deprecated
\* dependencies exactly when its lookup succeeded and the version looked up
\* carries a deprecation message, and the report lists those dependencies.
C27_DependencyFailureSkipped ==
    [][\A i \in {j \in 1..Len(items[1]) :
                      tool[1] = "npmDeprecated" /\ items[1][j].stage = 2} :
          \A url \in items[1][i].pend \ items'[1][i].pend :
              \A o \in OutcomesOf(url) :
                  Settle(1, i, url, o)
                  =>
                  LET succeeded == /\ o # "reject"
                                   /\ ResponseOk(o)
                                   /\ o # "badjson"
                                   /\ Body(o).json # "null"
                      listed == IF succeeded /\ Body(o).deprecated # "undef"
                                THEN Append(items[1][i].acc, url[2])
                                ELSE items[1][i].acc
                  IN  /\ items'[1][i].pc # "rejected"
                      /\ items'[1][i].pend = items[1][i].pend \ {url}
                      /\ pc[1] = "awaiting" => ~response'[1].isError
                      /\ IF items'[1][i].pend # {}
                         THEN /\ items'[1][i].pc = "pending"
                              /\ items'[1][i].acc = listed
                         ELSE /\ items'[1][i].pc = "fulfilled"
                              /\ items'[1][i].res.kind = "ok"
                              /\ items'[1][i].res.detail = listed
                      /\ pc[1] = "awaiting" /\ Returned(1)' =>
                             ItemSections(1)'[i] = items'[1][i].res]_vars

\* C27 witness: the report of handleNpmDeprecated lists the second
\* dependency alone after a lookup of the package's dependencies failed.
C27_Witness ==
    /\ Returned(1)
    /\ tool[1] = "npmDeprecated"
    /\ ~response[1].isError
    /\ 1 \in fetchLog[1].failed
    /\ Len(ItemSections(1)) = 1
    /\ ItemSections(1)[1].detail = <<dependencies[2]>>

====
